---- MODULE Spec2Model ----
(***************************************************************************)
(* Model of main.go: a page of HTML tables is scraped into table-of-string *)
(* structures and written into a Google Docs document through the Docs    *)
(* API (Documents.Get / Create / BatchUpdate).                             *)
(*                                                                         *)
(* A document body is a flat sequence of index positions, one token per    *)
(* Docs index: position p of the sequence (0-based) is Docs index p.       *)
(* "SB" is the section break at index 0, "NL" the newline that ends a      *)
(* paragraph, "TBL" / "ROW" / "CELL" / "TEND" the positions a table, a     *)
(* row, a cell and the end of a table occupy; any other token is one       *)
(* UTF-16 code unit of text.                                               *)
(*                                                                         *)
(* What the model takes from the Docs API, the program's collaborator:     *)
(*  - indexes count UTF-16 code units, so a character outside the Basic    *)
(*    Multilingual Plane occupies two positions (the program counts runes, *)
(*    utf8.RuneCountInString);                                             *)
(*  - InsertTable at the end of the segment puts a newline and the empty   *)
(*    table before the body's final newline; a table of no row or no       *)
(*    column is rejected;                                                  *)
(*  - InsertText must point inside a paragraph and carry a text;           *)
(*  - DeleteContentRange rejects an empty range;                           *)
(*  - the requests of one BatchUpdate apply in order and all or none;      *)
(*  - a call that fails in transport changes nothing.                      *)
(* Cell texts hold no newline.                                             *)
(***************************************************************************)
EXTENDS Integers, Sequences, FiniteSets, TLC

\* ------------------------------------------------------------------ bounds
MaxRows == 2
MaxCols == 2
MaxRuns == 2
MaxSegs == 2
MaxSegLen == 3

\* ------------------------------------------------------- text and encoding
\* A text is a sequence of characters (code points); "EMOJI" stands for one
\* code point outside the BMP (for instance U+1F600).
Astral == {"EMOJI"}

\* utf8.RuneCountInString(text): one per code point
RuneCount(text) == Len(text)

\* The UTF-16 code units the Docs API stores for one character.
Units(c) == IF c \in Astral THEN <<"EMOJI.hi", "EMOJI.lo">> ELSE <<c>>

RECURSIVE Encode(_)
Encode(text) ==
    IF text = <<>> THEN <<>> ELSE Units(Head(text)) \o Encode(Tail(text))

RECURSIVE Decode(_)
Decode(units) ==
    IF units = <<>> THEN <<>>
    ELSE IF Head(units) = "EMOJI.hi" /\ Len(units) >= 2 /\ units[2] = "EMOJI.lo"
         THEN <<"EMOJI">> \o Decode(Tail(Tail(units)))
         ELSE <<Head(units)>> \o Decode(Tail(units))

\* --------------------------------------------------- table-of-strings data
\* type row struct { entries []string }; type table struct { contents []row }
\* A table is modelled as the sequence tbl.contents of rows, a row as the
\* sequence row.entries of texts.
RECURSIVE SeqsUpTo(_, _)
SeqsUpTo(S, n) ==
    IF n = 0 THEN {<<>>}
    ELSE LET shorter == SeqsUpTo(S, n - 1)
         IN  shorter \cup {Append(s, x) : s \in {t \in shorter : Len(t) = n - 1}, x \in S}

\* ---------------------------------------------------------- document body
Structural == {"SB", "TBL", "ROW", "CELL", "TEND"}

\* the body of a document just created by Documents.Create: a section break
\* at index 0 and one empty paragraph (its newline) at index 1
NewDocument == <<"SB", "NL">>

Tok(doc, p) == doc[p + 1]

Min(S) == CHOOSE x \in S : \A y \in S : x <= y

RECURSIVE SortedSeq(_)
SortedSeq(S) ==
    IF S = {} THEN <<>> ELSE LET m == Min(S) IN <<m>> \o SortedSeq(S \ {m})

\* end index (exclusive) of the structural element that starts at index p
ElemEnd(doc, p) ==
    LET n == Len(doc)
        closers(t) == {q \in p..(n - 1) : Tok(doc, q) = t}
    IN  CASE Tok(doc, p) = "SB" -> p + 1
          [] Tok(doc, p) = "TBL" ->
                IF closers("TEND") = {} THEN n ELSE Min(closers("TEND")) + 1
          [] OTHER ->
                IF closers("NL") = {} THEN n ELSE Min(closers("NL")) + 1

\* the rows of the table element spanning [s, e): each row is the sequence of
\* its cells, a cell being [StartIndex, EndIndex)
TableRows(doc, s, e) ==
    LET marks(t, a, b) == {q \in a..(b - 1) : Tok(doc, q) = t}
        rowStarts == SortedSeq(marks("ROW", s, e))
        rowEnd(k) == IF k < Len(rowStarts) THEN rowStarts[k + 1] ELSE e - 1
        cellsOf(k) ==
            LET cs == SortedSeq(marks("CELL", rowStarts[k], rowEnd(k)))
            IN  [j \in 1..Len(cs) |->
                    [StartIndex |-> cs[j],
                     EndIndex |-> IF j < Len(cs) THEN cs[j + 1] ELSE rowEnd(k)]]
    IN  [k \in 1..Len(rowStarts) |-> cellsOf(k)]

\* doc.Body.Content of a fetched document: the top-level structural elements
RECURSIVE ContentFrom(_, _)
ContentFrom(doc, p) ==
    IF p >= Len(doc) THEN <<>>
    ELSE LET e == ElemEnd(doc, p)
             isTable == Tok(doc, p) = "TBL"
         IN  <<[StartIndex |-> p, EndIndex |-> e, IsTable |-> isTable,
                TableRows |-> IF isTable THEN TableRows(doc, p, e) ELSE <<>>]>>
             \o ContentFrom(doc, e)

BodyContent(doc) == ContentFrom(doc, 0)

\* the text a reader finds in a cell: its content without the final newline
CellText(doc, cell) ==
    Decode(SubSeq(doc, cell.StartIndex + 2, cell.EndIndex - 1))

\* ------------------------------------------------ Docs API request effects
\* Each operator gives [ok, doc]: whether the service accepts the request and
\* the body afterwards (unchanged when it is rejected).
Rejected(doc) == [ok |-> FALSE, doc |-> doc]
Accepted(doc) == [ok |-> TRUE, doc |-> doc]

RECURSIVE Repeat(_, _)
Repeat(s, n) == IF n <= 0 THEN <<>> ELSE s \o Repeat(s, n - 1)

\* an empty rows x cols table: every cell holds one empty paragraph
TableTokens(rows, cols) ==
    <<"TBL">> \o Repeat(<<"ROW">> \o Repeat(<<"CELL", "NL">>, cols), rows) \o <<"TEND">>

\* InsertTableRequest{Rows, Columns, EndOfSegmentLocation}: the table goes
\* before the body's final newline, preceded by a newline of its own
ApplyInsertTable(doc, rows, cols) ==
    IF rows < 1 \/ cols < 1 \/ Len(doc) = 0 THEN Rejected(doc)
    ELSE Accepted(SubSeq(doc, 1, Len(doc) - 1) \o <<"NL">>
                  \o TableTokens(rows, cols) \o <<"NL">>)

\* InsertTextRequest{Text, Location{Index}}: the index must lie inside a
\* paragraph (not on a structural position, not inside a surrogate pair) and
\* the text must not be empty
ApplyInsertText(doc, index, text) ==
    IF \/ text = <<>>
       \/ index < 0 \/ index >= Len(doc)
       \/ Tok(doc, index) \in Structural
       \/ Tok(doc, index) = "EMOJI.lo"
    THEN Rejected(doc)
    ELSE Accepted(SubSeq(doc, 1, index) \o Encode(text)
                  \o SubSeq(doc, index + 1, Len(doc)))

\* DeleteContentRangeRequest{Range{StartIndex, EndIndex}}: the range must be
\* non-empty, must leave the body's section break and final newline and must
\* hold whole tables
ApplyDeleteRange(doc, startIndex, endIndex) ==
    LET cut == SubSeq(doc, startIndex + 1, endIndex)
        count(t) == Cardinality({k \in 1..Len(cut) : cut[k] = t})
    IN  IF \/ startIndex >= endIndex
           \/ startIndex < 0
           \/ endIndex > Len(doc) - 1
           \/ count("SB") # 0
           \/ count("TBL") # count("TEND")
           \/ Tok(doc, endIndex) \in {"ROW", "CELL", "TEND", "EMOJI.lo"}
           \/ Tok(doc, startIndex) \in {"ROW", "CELL", "TEND", "EMOJI.lo"}
        THEN Rejected(doc)
        ELSE Accepted(SubSeq(doc, 1, startIndex) \o SubSeq(doc, endIndex + 1, Len(doc)))

\* BatchUpdate with a list of InsertText requests: applied in order, each
\* against the result of the one before; one rejected request rejects the
\* whole batch and leaves the document as it was
RECURSIVE ApplyTextBatch(_, _)
ApplyTextBatch(doc, requests) ==
    IF requests = <<>> THEN Accepted(doc)
    ELSE LET r == ApplyInsertText(doc, Head(requests).Index, Head(requests).Text)
         IN  IF ~r.ok THEN Rejected(doc)
             ELSE LET rest == ApplyTextBatch(r.doc, Tail(requests))
                  IN  IF rest.ok THEN rest ELSE Rejected(doc)

\* --------------------------------------------------- insertTableToDocument
\* variant: only the rowCnt == 0 test, the loop over the rows left out
ValidTableNonEmptyOnly(tbl) == Len(tbl) # 0

\* rowCnt == 0, or a row whose cell count differs from the first row's
ValidTable(tbl) ==
    /\ Len(tbl) # 0
    /\ \A i \in 1..Len(tbl) : Len(tbl[i]) = Len(tbl[1])

\* variant: the scan stops at the first table instead of keeping the last
FirstTableIdx(content) ==
    LET S == {i \in 1..Len(content) : content[i].IsTable}
    IN  IF S = {} THEN 0 ELSE CHOOSE i \in S : \A j \in S : i <= j

\* the scan for the last element of doc.Body.Content holding a table
\* (0 stands for the code's -1)
LastTableIdx(content) ==
    LET S == {i \in 1..Len(content) : content[i].IsTable}
    IN  IF S = {} THEN 0 ELSE CHOOSE i \in S : \A j \in S : j <= i

\* the (rowIdx, cellIdx, StartIndex) triples the two range loops visit, in
\* visiting order (indexes 1-based here)
RECURSIVE Flatten(_)
Flatten(seqs) == IF seqs = <<>> THEN <<>> ELSE Head(seqs) \o Flatten(Tail(seqs))

CellVisits(tableRows) ==
    Flatten([r \in 1..Len(tableRows) |->
                [c \in 1..Len(tableRows[r]) |->
                    [rowIdx |-> r, cellIdx |-> c,
                     StartIndex |-> tableRows[r][c].StartIndex]]])

\* tbl.contents[rowIdx].entries[cellIdx] is within range for every visit
InRange(tbl, visits) ==
    \A k \in 1..Len(visits) :
        /\ visits[k].rowIdx <= Len(tbl)
        /\ visits[k].cellIdx <= Len(tbl[visits[k].rowIdx])

\* variant: the running total counts requests, not characters
AdvanceOne(totalInserted, text) == totalInserted + 1

\* variant: the running total counts UTF-16 code units
AdvanceUnits(totalInserted, text) == totalInserted + Len(Encode(text))

\* totalInserted += int64(utf8.RuneCountInString(text))
Advance(totalInserted, text) == totalInserted + RuneCount(text)

\* the requests the loops append, totalInserted being the running total
RECURSIVE BuildRequests(_, _, _)
BuildRequests(tbl, visits, totalInserted) ==
    IF visits = <<>> THEN <<>>
    ELSE LET v == Head(visits)
             text == tbl[v.rowIdx][v.cellIdx]
         IN  <<[Text |-> text, Index |-> v.StartIndex + 1 + totalInserted]>>
             \o BuildRequests(tbl, Tail(visits), Advance(totalInserted, text))

NoRequests == <<>>

DeleteRangeRequest(range) ==
    [kind |-> "deleteContentRange", a |-> range.StartIndex, b |-> range.EndIndex,
     batch |-> <<>>]

InsertTableRequest(rows, cols) ==
    [kind |-> "insertTable", a |-> rows, b |-> cols, batch |-> <<>>]

InsertTextBatch(requests) ==
    [kind |-> "insertText", a |-> 0, b |-> 0, batch |-> requests]

\* where a destination call of insertTableToDocument may fail in transport
InsertFaults == {"none", "insertTable", "get", "insertText"}

\* insertTableToDocument(docId, srv, tbl) on a document whose body is doc,
\* with the transport fault `fault`: the outcome, the body afterwards, the
\* BatchUpdate requests sent, and what the function saw on its way
InsertTableToDocument(doc, tbl, fault) ==
    LET rowCnt == Len(tbl)
        colCnt == Len(tbl[1])
        base == [outcome |-> "invalid", doc |-> doc, reqs |-> NoRequests,
                 before |-> doc, fetched |-> <<>>, batch |-> <<>>,
                 selStart |-> -1, selRows |-> <<>>]
    IN  IF ~ValidTable(tbl) THEN base
        ELSE
        LET tableReq == <<InsertTableRequest(rowCnt, colCnt)>>
            created == ApplyInsertTable(doc, rowCnt, colCnt)
        IN  IF fault = "insertTable" \/ ~created.ok
            THEN [base EXCEPT !.outcome = "insertTableFailed", !.reqs = tableReq]
            ELSE IF fault = "get"
            THEN [base EXCEPT !.outcome = "getFailed", !.reqs = tableReq,
                              !.doc = created.doc]
            ELSE
            LET content == BodyContent(created.doc)
                tableIdx == LastTableIdx(content)
            IN  IF tableIdx = 0
                THEN [base EXCEPT !.outcome = "noTable", !.reqs = tableReq,
                                  !.doc = created.doc, !.fetched = created.doc]
                ELSE
                LET sel == content[tableIdx]
                    visits == CellVisits(sel.TableRows)
                    seen == [base EXCEPT !.reqs = tableReq, !.doc = created.doc,
                                         !.fetched = created.doc,
                                         !.selStart = sel.StartIndex,
                                         !.selRows = [r \in 1..Len(sel.TableRows) |->
                                                         Len(sel.TableRows[r])]]
                IN  IF ~InRange(tbl, visits)
                    THEN [seen EXCEPT !.outcome = "panic"]
                    ELSE
                    LET requests == BuildRequests(tbl, visits, 0)
                        sent == tableReq \o <<InsertTextBatch(requests)>>
                        filled == ApplyTextBatch(created.doc, requests)
                    IN  IF fault = "insertText" \/ ~filled.ok
                        THEN [seen EXCEPT !.outcome = "insertTextFailed",
                                          !.reqs = sent, !.batch = requests]
                        ELSE [seen EXCEPT !.outcome = "ok", !.reqs = sent,
                                          !.batch = requests, !.doc = filled.doc]

\* ----------------------------------------------------------- clearDocument
\* variant: the range starts at startIndex itself
ClearRangeFromStart(content) ==
    [StartIndex |-> content[1].StartIndex,
     EndIndex |-> content[Len(content)].EndIndex - 1]

\* variant: the range ends where it starts
ClearRangeEmpty(content) ==
    [StartIndex |-> content[1].StartIndex + 1,
     EndIndex |-> content[1].StartIndex + 1]

\* Range{StartIndex: startIndex + 1, EndIndex: endIndex - 1}
ClearRange(content) ==
    [StartIndex |-> content[1].StartIndex + 1,
     EndIndex |-> content[Len(content)].EndIndex - 1]

ClearFaults == {"none", "get", "batchUpdate"}

\* clearDocument(docId, srv) on a document whose body is doc
ClearDocument(doc, fault) ==
    LET content == BodyContent(doc)
        base == [err |-> FALSE, doc |-> doc, reqs |-> NoRequests]
    IN  IF fault = "get" THEN [base EXCEPT !.err = TRUE]
        ELSE IF Len(content) = 0 THEN base
        ELSE
        LET range == ClearRange(content)
            deleted == ApplyDeleteRange(doc, range.StartIndex, range.EndIndex)
            sent == <<DeleteRangeRequest(range)>>
        IN  IF fault = "batchUpdate" \/ ~deleted.ok
            THEN [base EXCEPT !.err = TRUE, !.reqs = sent]
            ELSE [base EXCEPT !.doc = deleted.doc, !.reqs = sent]

\* ------------------------------------------------------------------ inputs
Texts == {<<"c">>, <<"EMOJI", "EMOJI">>}

\* every table of at most MaxRows rows of at most MaxCols cells, ragged and
\* empty ones included
AllTables == SeqsUpTo(SeqsUpTo(Texts, MaxCols), MaxRows)

\* the row ["ab","c"] followed by the row ["d"]
RaggedExample == << << <<"a", "b">>, <<"c">> >>, << <<"d">> >> >>

\* the same with the second row completed to ["d","e"]
RectExample == << << <<"a", "b">>, <<"c">> >>, << <<"d">>, <<"e">> >> >>

\* one 2x2 table with the cells "A","B","C","D"
Table2x2 == << << <<"A">>, <<"B">> >>, << <<"C">>, <<"D">> >> >>

\* the tables the scraper finds on the source page, over the runs of one
\* behaviour (the page does not change between runs)
Pages ==
    LET one == << << <<"a">> >> >>
        column == << << <<"a">> >>, << <<"b">> >> >>
        blank == << << <<>>, <<"c">> >> >>
        noCells == << <<>>, <<>> >>
        noRows == <<>>
        wide == << << <<"EMOJI", "EMOJI">>, <<"x">> >> >>
    IN  { <<>>, <<Table2x2>>, <<RaggedExample, one>>, <<RectExample>>,
          <<one, column>>, <<blank, one>>, <<noRows, column>>,
          <<noCells, one>>, <<wide, one>> }

\* bodies a fetched document could hold if it were made of paragraphs only:
\* up to MaxSegs content segments of 1..MaxSegLen index positions each
Bodies ==
    LET chars == SeqsUpTo({"x", "y"}, MaxSegLen - 1)
        paragraphs == {Append(t, "NL") : t \in chars}
    IN  {Flatten(ps) : ps \in SeqsUpTo(paragraphs, MaxSegs)}

\* a document that still holds an older, filled 1x1 table
LeftoverDocument ==
    ApplyInsertText(ApplyInsertTable(NewDocument, 1, 1).doc, 5, <<"c">>).doc

\* ------------------------------------------------------------------- state
VARIABLES
    pc,          \* where main stands: Fetch, Authenticate, Locate, Clear, Insert, Done, Fatal, Panic
    run,         \* number of the current run of the program
    page,        \* the tables of the source page
    tables,      \* main's tables, the result of getTables
    i,           \* the range loop's position in tables (1-based)
    tokenFile,   \* token.json exists
    idFile,      \* content of document_id.txt, 0 when the file is absent
    docs,        \* the service's documents: docs[id] is the body of document id
    docId,       \* doc.DocumentId of the located document, 0 before Locate
    log,         \* the steps main attempted in this run, in order
    reqs,        \* the BatchUpdate requests sent in this run, in order
    failed,      \* the stage whose failure ended this run, "none" otherwise
    located,     \* what the last getDocument call did
    cleared,     \* what the last clearDocument call saw
    last,        \* what the last insertTableToDocument call saw and did
    faulty,      \* a destination call of this run failed in transport
    prev         \* how the previous run ended

vars == <<pc, run, page, tables, i, tokenFile, idFile, docs, docId, log, reqs,
          failed, located, cleared, last, faulty, prev>>

NoLocate == [done |-> FALSE, hadId |-> 0, created |-> 0, err |-> FALSE]
NoClear == [ran |-> FALSE, before |-> <<>>, err |-> FALSE]
NoInsert == [n |-> 0, outcome |-> "none", doc |-> <<>>, reqs |-> NoRequests,
             before |-> <<>>, fetched |-> <<>>, batch |-> <<>>,
             selStart |-> -1, selRows |-> <<>>]
NoPrev == [pc |-> "none", docId |-> 0, body |-> <<>>, faulty |-> FALSE]

\* the state in which a run of the program starts
Fresh ==
    /\ pc = "Fetch"
    /\ tables = <<>>
    /\ i = 0
    /\ docId = 0
    /\ log = <<>>
    /\ reqs = NoRequests
    /\ failed = "none"
    /\ located = NoLocate
    /\ cleared = NoClear
    /\ last = NoInsert
    /\ faulty = FALSE

Init ==
    /\ Fresh
    /\ run = 1
    /\ page \in Pages
    /\ tokenFile = FALSE
    /\ idFile = 0
    /\ docs = <<>>
    /\ prev = NoPrev

\* ------------------------------------------------------------------ driver
\* variants: an error of getDocument is only logged; an error of
\* insertTableToDocument ends the run
OnLocateErrorLogged == "Clear"
OnInsertErrorFatal == "Fatal"

\* what main does with an error of each step
OnFetchError == "Fatal"
OnServiceError == "Fatal"
OnLocateError == "Fatal"
OnClearError == "Insert"
OnInsertError == "Insert"

\* tables, err := getTables()
Fetch ==
    /\ pc = "Fetch"
    /\ \E ok \in BOOLEAN :
        IF ok
        THEN /\ tables' = page
             /\ pc' = "Authenticate"
             /\ failed' = failed
        ELSE /\ tables' = tables
             /\ pc' = OnFetchError
             /\ failed' = "Fetch"
    /\ UNCHANGED <<run, page, i, tokenFile, idFile, docs, docId, log, reqs,
                   located, cleared, last, faulty, prev>>

\* srv, err := getService(), with getClient, tokenFromFile, getTokenFromWeb
\* and saveToken
Authenticate ==
    /\ pc = "Authenticate"
    /\ \E outcome \in {"ok", "credentials", "exchange", "saveToken"} :
        CASE outcome = "credentials" ->
                /\ pc' = OnServiceError
                /\ failed' = "Authenticate"
                /\ tokenFile' = tokenFile
          [] outcome = "ok" ->
                /\ pc' = "Locate"
                /\ failed' = failed
                /\ tokenFile' = TRUE
          [] OTHER ->
                /\ ~tokenFile
                /\ pc' = "Fatal"
                /\ failed' = "Authenticate"
                /\ tokenFile' = tokenFile
    /\ UNCHANGED <<run, page, tables, i, idFile, docs, docId, log, reqs,
                   located, cleared, last, faulty, prev>>

\* getDocument(srv): what it returns and leaves behind, the Get or Create
\* call succeeding (callOk) or not, os.WriteFile succeeding (writeOk) or not
GetDocument(file, store, callOk, writeOk) ==
    IF file # 0
    THEN [err |-> ~callOk, docId |-> IF callOk THEN file ELSE 0,
          idFile |-> file, docs |-> store, created |-> 0]
    ELSE IF ~callOk
    THEN [err |-> TRUE, docId |-> 0, idFile |-> file, docs |-> store, created |-> 0]
    ELSE [err |-> FALSE, docId |-> Len(store) + 1,
          idFile |-> IF writeOk THEN Len(store) + 1 ELSE file,
          docs |-> Append(store, NewDocument), created |-> 1]

\* doc, err := getDocument(srv)
Locate ==
    /\ pc = "Locate"
    /\ \E callOk \in BOOLEAN, writeOk \in BOOLEAN :
        LET r == GetDocument(idFile, docs, callOk, writeOk)
        IN  /\ idFile' = r.idFile
            /\ docs' = r.docs
            /\ docId' = r.docId
            /\ located' = [done |-> TRUE, hadId |-> idFile, created |-> r.created,
                           err |-> r.err]
            /\ pc' = IF r.err THEN OnLocateError ELSE "Clear"
            /\ failed' = IF r.err THEN "Locate" ELSE failed
    /\ UNCHANGED <<run, page, tables, i, tokenFile, log, reqs, cleared, last,
                   faulty, prev>>

\* err = clearDocument(doc.DocumentId, srv)
Clear ==
    /\ pc = "Clear"
    /\ \E fault \in ClearFaults :
        LET r == ClearDocument(docs[docId], fault)
        IN  /\ docs' = [docs EXCEPT ![docId] = r.doc]
            /\ reqs' = reqs \o r.reqs
            /\ cleared' = [ran |-> TRUE, before |-> docs[docId], err |-> r.err]
            /\ faulty' = (faulty \/ fault # "none")
            /\ pc' = IF r.err THEN OnClearError ELSE "Insert"
    /\ log' = Append(log, [step |-> "Clear", n |-> 0])
    /\ i' = 1
    /\ UNCHANGED <<run, page, tables, tokenFile, idFile, docId, failed, located,
                   last, prev>>

\* one iteration of: for _, tbl := range tables { insertTableToDocument(...) }
Insert ==
    /\ pc = "Insert"
    /\ i <= Len(tables)
    /\ \E fault \in InsertFaults :
        LET r == InsertTableToDocument(docs[docId], tables[i], fault)
        IN  /\ docs' = [docs EXCEPT ![docId] = r.doc]
            /\ reqs' = reqs \o r.reqs
            /\ last' = [n |-> i, outcome |-> r.outcome, doc |-> r.doc,
                        reqs |-> r.reqs, before |-> r.before,
                        fetched |-> r.fetched, batch |-> r.batch,
                        selStart |-> r.selStart, selRows |-> r.selRows]
            /\ faulty' = (faulty \/ (fault # "none" /\ r.outcome # "invalid"))
            /\ pc' = CASE r.outcome = "panic" -> "Panic"
                       [] r.outcome = "ok" -> "Insert"
                       [] OTHER -> OnInsertError
    /\ log' = Append(log, [step |-> "Insert", n |-> i])
    /\ i' = i + 1
    /\ UNCHANGED <<run, page, tables, tokenFile, idFile, docId, failed, located,
                   cleared, prev>>

\* the range loop is exhausted and main returns
Finish ==
    /\ pc = "Insert"
    /\ i > Len(tables)
    /\ pc' = "Done"
    /\ UNCHANGED <<run, page, tables, i, tokenFile, idFile, docs, docId, log,
                   reqs, failed, located, cleared, last, faulty, prev>>

\* the program is started again; token.json, document_id.txt and the
\* service's documents are what the runs before left
Rerun ==
    /\ pc \in {"Done", "Fatal", "Panic"}
    /\ run < MaxRuns
    /\ run' = run + 1
    /\ prev' = [pc |-> pc, docId |-> docId,
                body |-> IF docId = 0 THEN <<>> ELSE docs[docId],
                faulty |-> faulty]
    /\ pc' = "Fetch"
    /\ tables' = <<>>
    /\ i' = 0
    /\ docId' = 0
    /\ log' = <<>>
    /\ reqs' = NoRequests
    /\ failed' = "none"
    /\ located' = NoLocate
    /\ cleared' = NoClear
    /\ last' = NoInsert
    /\ faulty' = FALSE
    /\ UNCHANGED <<page, tokenFile, idFile, docs>>

Next == Fetch \/ Authenticate \/ Locate \/ Clear \/ Insert \/ Finish \/ Rerun

Spec == Init /\ [][Next]_vars

\* ------------------------------------------- insertTableToDocument alone
\* One call of insertTableToDocument on every table of AllTables: the run has
\* located a document that is new or still holds an older table, and has
\* attempted Clear on it.
InitInsert ==
    /\ pc = "Insert"
    /\ run = 1
    /\ page \in {<<t>> : t \in AllTables}
    /\ tables = page
    /\ i = 1
    /\ tokenFile = TRUE
    /\ idFile = 1
    /\ docId = 1
    /\ log = <<[step |-> "Clear", n |-> 0]>>
    /\ failed = "none"
    /\ located = [done |-> TRUE, hadId |-> 1, created |-> 0, err |-> FALSE]
    /\ last = NoInsert
    /\ prev = NoPrev
    /\ \E body \in {NewDocument, LeftoverDocument} :
        LET fault == IF body = NewDocument THEN "none" ELSE "get"
            r == ClearDocument(body, fault)
        IN  /\ docs = <<r.doc>>
            /\ reqs = r.reqs
            /\ cleared = [ran |-> TRUE, before |-> body, err |-> r.err]
            /\ faulty = (fault # "none")

NextInsert == Insert \/ Finish

SpecInsert == InitInsert /\ [][NextInsert]_vars

\* ----------------------------------------------------- clearDocument alone
\* One call of clearDocument on every body of Bodies, the page holding no
\* table.
InitClear ==
    /\ pc = "Clear"
    /\ run = 1
    /\ page = <<>>
    /\ tables = page
    /\ i = 0
    /\ tokenFile = TRUE
    /\ idFile = 1
    /\ docId = 1
    /\ docs \in {<<body>> : body \in Bodies}
    /\ log = <<>>
    /\ reqs = NoRequests
    /\ failed = "none"
    /\ located = [done |-> TRUE, hadId |-> 1, created |-> 0, err |-> FALSE]
    /\ cleared = NoClear
    /\ last = NoInsert
    /\ faulty = FALSE
    /\ prev = NoPrev

NextClear == Clear \/ Finish

SpecClear == InitClear /\ [][NextClear]_vars

\* ------------------------------------------------------------------ claims
\* helpers of the properties below

\* the table handed to the last insertTableToDocument call
LastTable == tables[last.n]

\* zero rows, or two rows of different cell counts
Ragged(tbl) ==
    \/ Len(tbl) = 0
    \/ \E r1, r2 \in 1..Len(tbl) : Len(tbl[r1]) # Len(tbl[r2])

\* the last call got as far as building its insert-text requests
ReachedTextStep == last.outcome \in {"ok", "insertTextFailed", "panic"}

\* the cells, in row-major order, of the table element of body that starts at
\* index start
CellsAt(body, start) ==
    LET content == BodyContent(body)
        k == CHOOSE k \in 1..Len(content) : content[k].StartIndex = start
    IN  Flatten(content[k].TableRows)

\* the cells of the table the last call created, in the document it re-fetched
CreatedCells == CellsAt(last.fetched, Len(last.before))

RECURSIVE SumRunes(_)
SumRunes(texts) ==
    IF texts = <<>> THEN 0 ELSE Len(Head(texts)) + SumRunes(Tail(texts))

\* the cell texts of every table of a body, table by table, row by row
TableContents(body) ==
    LET content == BodyContent(body)
        tbls == SortedSeq({k \in 1..Len(content) : content[k].IsTable})
    IN  [t \in 1..Len(tbls) |->
            LET rows == content[tbls[t]].TableRows
            IN  [r \in 1..Len(rows) |->
                    [c \in 1..Len(rows[r]) |-> CellText(body, rows[r][c])]]]

\* C1: a table with zero rows, or with a row whose cell count differs from
\* the first row's, makes insertTableToDocument return its validation error
\* with no request sent and the document as it was.
C1_InvalidTableRejected ==
    (last.n # 0 /\ Ragged(LastTable)) =>
        /\ last.outcome = "invalid"
        /\ last.reqs = NoRequests
        /\ last.doc = last.before
        /\ docs[docId] = last.before

C1_Witness ==
    /\ last.n # 0
    /\ Len(LastTable) = 2
    /\ Len(LastTable[1]) # Len(LastTable[2])
    /\ last.outcome = "invalid"

\* C2: after insertTableToDocument(T) succeeds on a table T of equal-length
\* rows, the table it created holds T's rows x columns and every cell reads
\* exactly T's entry for its position.
C2_CellsMatchTable ==
    (last.n # 0 /\ last.outcome = "ok") =>
        LET created == TableContents(last.doc)[Len(TableContents(last.doc))]
        IN  created = LastTable

ExpectedLog ==
    <<[step |-> "Clear", n |-> 0]>>
    \o [k \in 1..Len(tables) |-> [step |-> "Insert", n |-> k]]

\* the steps attempted so far are Clear and then Insert(1), Insert(2), ... in
\* order, each once; no attempted step has ended the run
OnCourse ==
    log # <<>> =>
        /\ pc \in {"Insert", "Done"}
        /\ Len(log) <= Len(ExpectedLog)
        /\ log = SubSeq(ExpectedLog, 1, Len(log))
        /\ (pc = "Insert" => i = Len(log))
        /\ (pc = "Done" => log = ExpectedLog)

\* a step taken in Clear or Insert attempts the next step of ExpectedLog,
\* whatever its outcome, or finds the loop exhausted and ends in Done
NextAttempt ==
    pc \in {"Clear", "Insert"} =>
        \/ pc' = "Insert" /\ Len(log') = Len(log) + 1
        \/ pc' = "Done" /\ log' = log /\ log = ExpectedLog

\* C4: once Fetch, Authenticate and Locate have succeeded the run reaches
\* Done, having attempted Clear once and then Insert(1), ..., Insert(N) once
\* each in this order, whatever failed on the way: no attempted step ends the
\* run or is repeated, and every step before Done attempts the next one (the
\* guards of Clear, Insert and Finish leave no state of Clear or Insert
\* without a step, so Done comes after Len(tables) + 2 steps).
C4_ReachesDone == []OnCourse /\ [][NextAttempt]_vars

C4_Witness ==
    /\ pc = "Done"
    /\ cleared.err
    /\ Len(tables) = 2
    /\ last.n = 2
    /\ last.outcome = "insertTextFailed"
    /\ log = ExpectedLog

\* C5: a run in which Fetch, Authenticate or Locate failed stands in Fatal,
\* has sent no delete-range, insert-table or insert-text request and has
\* attempted neither Clear nor any Insert.
C5_FatalHalts ==
    (failed # "none" \/ pc = "Fatal") =>
        /\ pc = "Fatal"
        /\ failed \in {"Fetch", "Authenticate", "Locate"}
        /\ reqs = NoRequests
        /\ log = <<>>
        /\ ~cleared.ran
        /\ last.n = 0

C5_Witness ==
    /\ pc = "Fatal"
    /\ failed = "Locate"
    /\ run = 2
    /\ idFile # 0
    /\ TableContents(docs[idFile]) # <<>>

\* both this run and the one before ended in Done on the same document
TwoRunsOneDocument ==
    /\ pc = "Done"
    /\ prev.pc = "Done"
    /\ docId = prev.docId
    /\ located.hadId = docId

C7_ShiftByTwo ==
    (last.n # 0 /\ LastTable = RaggedExample) =>
        \E k \in 1..Len(last.batch) :
            /\ last.batch[k].Text = <<"d">>
            /\ last.batch[k].Index = CreatedCells[k].StartIndex + 1 + 2

\* C7 (amended): the table of the rows ["ab","c"] and ["d"] is rejected by the
\* validation and nothing is placed; in the table of the rows ["ab","c"] and
\* ["d","e"] the request for "d" is the third and its index is its cell's
\* pre-insertion start + 1, shifted by exactly 3, the character count of "ab"
\* and "c".
C7_RaggedRejectedRectShiftThree ==
    /\ (last.n # 0 /\ LastTable = RaggedExample) =>
          (last.outcome = "invalid" /\ last.batch = <<>>)
    /\ (last.n # 0 /\ LastTable = RectExample /\ ReachedTextStep) =>
          /\ Len(last.batch) = 4
          /\ last.batch[3].Text = <<"d">>
          /\ last.batch[3].Index = CreatedCells[3].StartIndex + 1 + 3

C7_Witness ==
    /\ last.n # 0
    /\ LastTable = RectExample
    /\ last.outcome = "ok"
    /\ TableContents(last.doc) = <<RectExample>>

\* C8: for a validated table whose call reaches the text step, the texts go
\* out as one batch of one insert-text request per cell in row-major order,
\* the k-th at (start of the k-th cell in the re-fetched document) + 1 + (the
\* character count of the texts of the cells before it).
C8_BatchIndexes ==
    (last.n # 0 /\ last.outcome \in {"ok", "insertTextFailed"}) =>
        LET texts == Flatten(LastTable)
        IN  /\ Len(last.reqs) = 2
            /\ last.reqs[1].kind = "insertTable"
            /\ last.reqs[2] = [kind |-> "insertText", a |-> 0, b |-> 0,
                               batch |-> last.batch]
            /\ Len(last.batch) = Len(texts)
            /\ Len(CreatedCells) = Len(texts)
            /\ \A k \in 1..Len(texts) :
                /\ last.batch[k].Text = texts[k]
                /\ last.batch[k].Index =
                      CreatedCells[k].StartIndex + 1 + SumRunes(SubSeq(texts, 1, k - 1))

C8_Witness ==
    /\ last.n # 0
    /\ last.outcome = "ok"
    /\ Len(last.batch) = 4
    /\ last.batch[4].Index > CreatedCells[4].StartIndex + 1
    /\ cleared.before = LeftoverDocument

\* C9: getDocument with a persisted identifier fetches that document, creates
\* none and leaves the identifier; with none persisted it creates exactly one
\* document and persists its identifier; when its Get or Create call fails it
\* returns the error and persists nothing.
C9_Locator ==
    located.done =>
        /\ (located.hadId # 0) =>
              /\ located.created = 0
              /\ idFile = located.hadId
              /\ (~located.err => docId = located.hadId)
        /\ (located.hadId = 0 /\ ~located.err) =>
              /\ located.created = 1
              /\ docId = Len(docs)
              /\ idFile = docId
        /\ located.err =>
              /\ located.created = 0
              /\ idFile = located.hadId

\* C10: whenever a call reaches its text step, the table it fills is the one
\* its own insert-table request created and has the rows and columns of the
\* table it was given, so no index leaves its range.
C10_FillsOwnTable ==
    /\ pc # "Panic"
    /\ (last.n # 0 /\ ReachedTextStep) =>
          /\ last.outcome # "panic"
          /\ last.selStart = Len(last.before)
          /\ last.selRows = [r \in 1..Len(LastTable) |-> Len(LastTable[r])]

C10_Witness ==
    /\ last.n = 2
    /\ last.outcome = "ok"
    /\ run = 2
    /\ cleared.err
    /\ Len(TableContents(last.before)) = 3
    /\ Len(TableContents(last.before)[3][1]) # Len(LastTable[1])

====
